---- MODULE Spec2Model ----
(***************************************************************************)
(* A model of main.py: the A* search a_star over a rectangular maze and    *)
(* the random maze generator generate_maze.                                *)
(*                                                                         *)
(* A coordinate is a pair <<row, col>>.  Python's None is the empty tuple. *)
(* A dict is a function whose DOMAIN is the set of its keys.               *)
(* The heap open_set is the set of its (priority, position) entries:       *)
(* a_star pushes a position only when no entry of the heap holds it, so    *)
(* the entries are pairwise distinct and heappop returns the one least     *)
(* entry under Python's tuple order, whatever the heap's internal layout.  *)
(***************************************************************************)
EXTENDS Integers, Sequences, FiniteSets, TLC

\* ---- bounds of the model ------------------------------------------------
MaxRows == 2
MaxCols == 6
MaxCells == 12
MaxWalls == 1
GenMaxRows == 3
GenMaxCols == 4

\* ---- cell markers (main.py:19-23, and the "o" of generate_maze) ---------
START_STR == "S"
GOAL_STR == "E"
WALL_STR == "#"
PATH_STR == "*"
CHECKED_STR == "c"
OPEN_STR == "o"

None == <<>>

wall_percentage == 35

VARIABLES
  rows,        \* len(maze)
  cols,        \* len(maze[0])
  maze,        \* the grid, a function from coordinates to markers
  maze0,       \* the grid as it was handed to a_star (history variable)
  pc,          \* position of the running function
  start,       \* a_star: start; generate_maze: start
  goal,        \* a_star: goal;  generate_maze: end
  open_set,    \* the entries <<priority, position>> of the heap
  came_from,
  g_score,
  f_score,
  current,     \* the entry popped last
  todo,        \* neighbours of current the for loop has yet to visit
  outcome,     \* "running", "path", "none" (None returned), "error" (raised)
  path,        \* the list returned when outcome = "path"
  gi,          \* generate_maze: loop index i
  gj           \* generate_maze: loop index j

vars == <<rows, cols, maze, maze0, pc, start, goal, open_set, came_from,
          g_score, f_score, current, todo, outcome, path, gi, gj>>

astarVars == <<open_set, came_from, g_score, f_score, current, todo>>

\* ---- helpers -------------------------------------------------------------
Cells(r, c) == (0 .. r - 1) \X (0 .. c - 1)

abs(x) == IF x < 0 THEN -x ELSE x

\* Python's order on the pairs (row, col)
PosLess(a, b) == a[1] < b[1] \/ (a[1] = b[1] /\ a[2] < b[2])

\* Python's order on the heap entries (priority, (row, col))
EntryLess(a, b) == a[1] < b[1] \/ (a[1] = b[1] /\ PosLess(a[2], b[2]))

\* the entry heapq.heappop removes
HeapMin(h) == CHOOSE e \in h : \A o \in h : o = e \/ EntryLess(e, o)

HeapRest_Peek(h, e) == h

\* the heap heapq.heappop leaves behind
HeapRest(h, e) == h \ {e}

\* the last position in row-major order holding marker m, or None
LastWith(mz, r, c, m) ==
  LET hits == {p \in Cells(r, c) : mz[p] = m}
  IN IF hits = {} THEN None
     ELSE CHOOSE p \in hits : \A q \in hits : q = p \/ PosLess(q, p)

\* find_positions scans every cell; a start marker is never a goal marker,
\* so the if/elif assigns each of start and goal at the last cell holding it
find_positions(mz, r, c) ==
  <<LastWith(mz, r, c, START_STR), LastWith(mz, r, c, GOAL_STR)>>

heuristic(a, b) == abs(a[1] - b[1]) + abs(a[2] - b[2])

InBounds(p, r, c) == 0 <= p[1] /\ p[1] < r /\ 0 <= p[2] /\ p[2] < c

get_neighbors_NoLeft(r, c, position) ==
  LET x == position[1]
      y == position[2]
      neighbors == << <<x + 1, y>>, <<x - 1, y>>, <<x, y + 1>> >>
      Ok(p) == InBounds(p, r, c)
  IN SelectSeq(neighbors, Ok)

get_neighbors(r, c, position) ==
  LET x == position[1]
      y == position[2]
      neighbors == << <<x + 1, y>>, <<x - 1, y>>, <<x, y + 1>>, <<x, y - 1>> >>
      Ok(p) == InBounds(p, r, c)
  IN SelectSeq(neighbors, Ok)

IsWall_Never(mz, n) == FALSE

\* line 116: the neighbour is skipped
IsWall(mz, n) == mz[n] = WALL_STR

\* line 121: tentative_g_score < g_score.get(neighbor, inf)
Improves(t, n, g) == n \notin DOMAIN g \/ t < g[n]

\* line 125: neighbor not in [pos for _, pos in open_set]
InOpenSet(h, n) == \E e \in h : e[2] = n

Markable_Any(mz, n) == TRUE

\* line 128: the neighbour is marked as checked
Markable(mz, n) == mz[n] \notin {START_STR, GOAL_STR}

\* lines 109-113: follow came_from from the goal; the list is built goal
\* first and reversed, so the cell reached last comes first
RECURSIVE ChainFrom(_, _)
ChainFrom(cf, cur) ==
  IF cur \in DOMAIN cf THEN Append(ChainFrom(cf, cf[cur]), cur) ELSE <<>>

RECURSIVE ChainWithStart(_, _)
ChainWithStart(cf, cur) ==
  IF cur \in DOMAIN cf THEN Append(ChainWithStart(cf, cf[cur]), cur) ELSE <<cur>>

ReconstructPath_WithStart(cf, cur) == ChainWithStart(cf, cur)

ReconstructPath(cf, cur) == ChainFrom(cf, cur)

\* ---- a_star --------------------------------------------------------------
RECURSIVE SubsetsUpTo(_, _)
SubsetsUpTo(S, k) ==
  IF k = 0 THEN {{}}
  ELSE LET P == SubsetsUpTo(S, k - 1)
       IN P \cup {p \cup {x} : p \in P, x \in S}

MakeMaze(r, c, s, g, ws) ==
  [p \in Cells(r, c) |->
     IF p = s THEN START_STR
     ELSE IF p = g THEN GOAL_STR
     ELSE IF p \in ws THEN WALL_STR
     ELSE OPEN_STR]

\* a_star is called on any grid of walls and open cells with at most one
\* start and at most one goal marker; the grids of the model have at most
\* MaxRows rows, MaxCols columns, MaxCells cells and MaxWalls walls
Init ==
  \E r \in 1 .. MaxRows, c \in 1 .. MaxCols :
    \E s \in Cells(r, c) \cup {None}, g \in Cells(r, c) \cup {None} :
      \E ws \in SubsetsUpTo(Cells(r, c) \ {s, g}, MaxWalls) :
        /\ r * c <= MaxCells
        /\ s = None \/ s # g
        /\ rows = r
        /\ cols = c
        /\ maze = MakeMaze(r, c, s, g, ws)
        /\ maze0 = MakeMaze(r, c, s, g, ws)
        /\ pc = "start"
        /\ start = None
        /\ goal = None
        /\ open_set = {}
        /\ came_from = <<>>
        /\ g_score = <<>>
        /\ f_score = <<>>
        /\ current = None
        /\ todo = <<>>
        /\ outcome = "running"
        /\ path = <<>>
        /\ gi = 0
        /\ gj = 0

\* lines 96-98: a missing marker
MissingMarker ==
  /\ pc = "start"
  /\ LET sg == find_positions(maze, rows, cols)
     IN /\ (sg[1] = None \/ sg[2] = None)
        /\ start' = sg[1]
        /\ goal' = sg[2]
  /\ outcome' = "none"
  /\ pc' = "done"
  /\ UNCHANGED <<rows, cols, maze, maze0, astarVars, path, gi, gj>>

\* lines 96-103
Begin ==
  /\ pc = "start"
  /\ LET sg == find_positions(maze, rows, cols)
     IN /\ sg[1] # None
        /\ sg[2] # None
        /\ start' = sg[1]
        /\ goal' = sg[2]
        /\ open_set' = {<<0, sg[1]>>}
        /\ came_from' = <<>>
        /\ g_score' = (sg[1] :> 0)
        /\ f_score' = (sg[1] :> heuristic(sg[1], sg[2]))
  /\ pc' = "loop"
  /\ UNCHANGED <<rows, cols, maze, maze0, current, todo, outcome, path, gi, gj>>

\* lines 105, 132: the frontier is empty
Exhausted ==
  /\ pc = "loop"
  /\ open_set = {}
  /\ outcome' = "none"
  /\ pc' = "done"
  /\ UNCHANGED <<rows, cols, maze, maze0, start, goal, astarVars, path, gi, gj>>

\* lines 106-113: the goal is popped
PopGoal ==
  /\ pc = "loop"
  /\ open_set # {}
  /\ LET e == HeapMin(open_set)
     IN /\ e[2] = goal
        /\ open_set' = HeapRest(open_set, e)
        /\ current' = e[2]
        /\ path' = ReconstructPath(came_from, e[2])
  /\ outcome' = "path"
  /\ pc' = "done"
  /\ UNCHANGED <<rows, cols, maze, maze0, start, goal, came_from, g_score,
                 f_score, todo, gi, gj>>

\* lines 106-115: another cell is popped and its neighbours are listed
PopExpand ==
  /\ pc = "loop"
  /\ open_set # {}
  /\ LET e == HeapMin(open_set)
         ns == get_neighbors(rows, cols, e[2])
     IN /\ e[2] # goal
        /\ open_set' = HeapRest(open_set, e)
        /\ current' = e[2]
        /\ todo' = ns
        /\ pc' = IF ns = <<>> THEN "loop" ELSE "neighbors"
  /\ UNCHANGED <<rows, cols, maze, maze0, start, goal, came_from, g_score,
                 f_score, outcome, path, gi, gj>>

AfterNeighbor == IF Tail(todo) = <<>> THEN "loop" ELSE "neighbors"

\* lines 115-117: a wall neighbour
SkipWall ==
  /\ pc = "neighbors"
  /\ todo # <<>>
  /\ IsWall(maze, Head(todo))
  /\ todo' = Tail(todo)
  /\ pc' = AfterNeighbor
  /\ UNCHANGED <<rows, cols, maze, maze0, start, goal, open_set, came_from,
                 g_score, f_score, current, outcome, path, gi, gj>>

\* lines 115-130: one pass of the loop body over a neighbour that is no wall
Relax ==
  /\ pc = "neighbors"
  /\ todo # <<>>
  /\ ~IsWall(maze, Head(todo))
  /\ LET neighbor == Head(todo)
         tentative_g_score == g_score[current] + 1
         f == tentative_g_score + heuristic(neighbor, goal)
     IN /\ IF Improves(tentative_g_score, neighbor, g_score)
           THEN /\ came_from' = (neighbor :> current) @@ came_from
                /\ g_score' = (neighbor :> tentative_g_score) @@ g_score
                /\ f_score' = (neighbor :> f) @@ f_score
                /\ open_set' = IF InOpenSet(open_set, neighbor)
                               THEN open_set
                               ELSE open_set \cup {<<f, neighbor>>}
           ELSE UNCHANGED <<came_from, g_score, f_score, open_set>>
        /\ maze' = IF Markable(maze, neighbor)
                   THEN [maze EXCEPT ![neighbor] = CHECKED_STR]
                   ELSE maze
  /\ todo' = Tail(todo)
  /\ pc' = AfterNeighbor
  /\ UNCHANGED <<rows, cols, maze0, start, goal, current, outcome, path, gi, gj>>

Next ==
  \/ MissingMarker
  \/ Begin
  \/ Exhausted
  \/ PopGoal
  \/ PopExpand
  \/ SkipWall
  \/ Relax

Spec == Init /\ [][Next]_vars

FairSpec == Init /\ [][Next]_vars /\ WF_vars(Next)

TypeOK ==
  /\ pc \in {"start", "loop", "neighbors", "done"}
  /\ outcome \in {"running", "path", "none", "error"}

\* ---- generate_maze -------------------------------------------------------
\* line 177: random.randint(0, 100) < wall_percentage, over every draw
WallDraws ==
  {b \in BOOLEAN : \E rnd \in 0 .. 100 : b = (rnd < wall_percentage)}

\* lines 196-201: the four neighbouring markers, "" outside the grid
WallNeighbors(mz, r, c, x, y) ==
  << IF x > 0 THEN mz[<<x - 1, y>>] ELSE "",
     IF x < r - 1 THEN mz[<<x + 1, y>>] ELSE "",
     IF y > 0 THEN mz[<<x, y - 1>>] ELSE "",
     IF y < c - 1 THEN mz[<<x, y + 1>>] ELSE "" >>

is_valid_wall_location_OwnCellOnly(mz, r, c, x, y) ==
  mz[<<x, y>>] \notin {START_STR, GOAL_STR}

is_valid_wall_location(mz, r, c, x, y) ==
  IF mz[<<x, y>>] \in {START_STR, GOAL_STR} THEN FALSE
  ELSE LET neighbors == WallNeighbors(mz, r, c, x, y)
       IN ~(\E k \in 1 .. 4 : neighbors[k] \in {START_STR, GOAL_STR})

\* line 167 has run: every cell is open
InitGen ==
  \E r \in 1 .. GenMaxRows, c \in 1 .. GenMaxCols :
    /\ rows = r
    /\ cols = c
    /\ maze = [p \in Cells(r, c) |-> OPEN_STR]
    /\ maze0 = [p \in Cells(r, c) |-> OPEN_STR]
    /\ pc = "gen"
    /\ start = None
    /\ goal = None
    /\ open_set = {}
    /\ came_from = <<>>
    /\ g_score = <<>>
    /\ f_score = <<>>
    /\ current = None
    /\ todo = <<>>
    /\ outcome = "running"
    /\ path = <<>>
    /\ gi = 0
    /\ gj = 0

\* lines 168-172: start and end are drawn and written, end last
GenPlace ==
  /\ pc = "gen"
  /\ \E s \in (0 .. rows \div 3) \X (0 .. cols \div 3),
        e \in ((2 * rows) \div 3 .. rows - 1) \X ((2 * cols) \div 3 .. cols - 1) :
       /\ start' = s
       /\ goal' = e
       /\ maze' = [[maze EXCEPT ![s] = START_STR] EXCEPT ![e] = GOAL_STR]
  /\ gi' = 0
  /\ gj' = 0
  /\ pc' = "walls"
  /\ UNCHANGED <<rows, cols, maze0, astarVars, outcome, path>>

\* lines 175-178: one pass of the inner loop, over cell (i, j)
GenCell ==
  /\ pc = "walls"
  /\ gi < rows
  /\ \E draw \in WallDraws :
       maze' = IF draw
                  /\ is_valid_wall_location(maze, rows, cols, gi, gj)
               THEN [maze EXCEPT ![<<gi, gj>>] = WALL_STR]
               ELSE maze
  /\ gj' = IF gj + 1 < cols THEN gj + 1 ELSE 0
  /\ gi' = IF gj + 1 < cols THEN gi ELSE gi + 1
  /\ UNCHANGED <<rows, cols, maze0, pc, start, goal, astarVars, outcome, path>>

\* line 179
GenReturn ==
  /\ pc = "walls"
  /\ gi = rows
  /\ pc' = "generated"
  /\ UNCHANGED <<rows, cols, maze, maze0, start, goal, astarVars, outcome,
                 path, gi, gj>>

NextGen ==
  \/ GenPlace
  \/ GenCell
  \/ GenReturn

SpecGen == InitGen /\ [][NextGen]_vars

\* ---- reference notions the properties are stated with --------------------
AllCells == Cells(rows, cols)

Adjacent(p, q) == heuristic(p, q) = 1

InputWalls == {p \in AllCells : maze0[p] = WALL_STR}

\* breadth-first search over the cells of the input grid that are no walls:
\* the number of steps from the cells of frontier to the goal, -1 if none
RECURSIVE Bfs(_, _, _)
Bfs(seen, frontier, d) ==
  IF goal \in frontier THEN d
  ELSE IF frontier = {} THEN -1
  ELSE LET nxt == {q \in AllCells \ seen :
                     /\ q \notin InputWalls
                     /\ \E p \in frontier : Adjacent(p, q)}
       IN Bfs(seen \cup nxt, nxt, d + 1)

TrueDist == Bfs({start}, {start}, 0)

WellFormed == start # None /\ goal # None

\* ---- properties of a_star -------------------------------------------------
\* C1: a returned path has as many entries as the breadth-first distance
\* from start to goal.
C1_PathIsShortest ==
  outcome = "path" => Len(path) = TrueDist

\* C2: on a grid with a start and a goal, a_star returns None exactly when
\* no walk over cells that are no walls leads from start to goal.
C2_NoneIffUnreachable ==
  (pc = "done" /\ WellFormed) => ((outcome = "none") <=> (TrueDist = -1))

C2_Witness ==
  /\ pc = "done"
  /\ WellFormed
  /\ outcome = "none"
  /\ InputWalls # {}
  /\ came_from # <<>>

\* C3: a returned path leaves out the start, begins next to the start, ends
\* at the goal, and each entry is one orthogonal step from the one before.
C3_PathContiguous ==
  outcome = "path" =>
    /\ Len(path) >= 1
    /\ \A i \in 1 .. Len(path) : path[i] # start
    /\ Adjacent(start, path[1])
    /\ path[Len(path)] = goal
    /\ \A i \in 1 .. Len(path) - 1 : Adjacent(path[i], path[i + 1])

C3_Witness ==
  outcome = "path" /\ Len(path) >= 4 /\ path[1][1] # path[Len(path)][1]

\* C4: no entry of a returned path is a wall of the input grid.
C4_PathAvoidsWalls ==
  outcome = "path" => \A i \in 1 .. Len(path) : path[i] \notin InputWalls

C4_Witness ==
  /\ outcome = "path"
  /\ Len(path) > heuristic(start, goal)
  /\ \E w \in InputWalls : \E i \in 1 .. Len(path) : Adjacent(w, path[i])

\* C5: on a grid without a start or without a goal, a_star raises an error
\* and does not return None.
C5_MissingMarkerRaises ==
  (pc = "done" /\ ~WellFormed) => outcome = "error"

\* C8: a relaxation that improves the neighbour's g_score records came_from,
\* g_score and f_score and leaves in the frontier an entry of the neighbour
\* whose priority is the new f_score.
C8_ImprovedNeighborQueued ==
  [][(/\ pc = "neighbors"
      /\ todo # <<>>
      /\ ~IsWall(maze, Head(todo))
      /\ Improves(g_score[current] + 1, Head(todo), g_score))
     => (/\ came_from'[Head(todo)] = current
         /\ g_score'[Head(todo)] = g_score[current] + 1
         /\ f_score'[Head(todo)] = g_score[current] + 1 + heuristic(Head(todo), goal)
         /\ <<f_score'[Head(todo)], Head(todo)>> \in open_set')]_vars

\* C9: during the search walls, start and goal stay where the input grid has
\* them, and a cell that changed was open and is now marked as checked.
C9_OnlyOpenCellsMarked ==
  pc \in {"start", "loop", "neighbors", "done"} =>
    \A p \in AllCells :
      /\ (maze[p] = WALL_STR) <=> (maze0[p] = WALL_STR)
      /\ (maze[p] = START_STR) <=> (maze0[p] = START_STR)
      /\ (maze[p] = GOAL_STR) <=> (maze0[p] = GOAL_STR)
      /\ maze[p] # maze0[p] => (maze0[p] = OPEN_STR /\ maze[p] = CHECKED_STR)

C9_Witness ==
  /\ pc = "done"
  /\ WellFormed
  /\ InputWalls # {}
  /\ \E p \in AllCells : maze[p] = CHECKED_STR /\ \E w \in InputWalls : Adjacent(p, w)
  /\ \E p \in AllCells : Adjacent(p, goal) /\ p # start

\* C10: the search loop comes to an end: a_star returns.
C10_Terminates == <>(pc = "done")

C10_Witness ==
  pc = "done" /\ WellFormed /\ outcome = "none" /\ Cardinality(DOMAIN g_score) >= 4

\* ---- properties of generate_maze -----------------------------------------
\* C6: the returned grid holds exactly one start and exactly one goal.
C6_OneStartOneGoal ==
  pc = "generated" =>
    /\ Cardinality({p \in AllCells : maze[p] = START_STR}) = 1
    /\ Cardinality({p \in AllCells : maze[p] = GOAL_STR}) = 1

\* C7: in the returned grid no wall is the start or the goal or next to
\* either, and every cell besides start and goal is a wall or open.
C7_WallsKeepClear ==
  pc = "generated" =>
    \A p \in AllCells :
      /\ maze[p] = WALL_STR =>
           /\ p # start
           /\ p # goal
           /\ ~Adjacent(p, start)
           /\ ~Adjacent(p, goal)
      /\ (p # start /\ p # goal) => maze[p] \in {WALL_STR, OPEN_STR}

C7_Witness ==
  /\ pc = "generated"
  /\ \E p \in AllCells : maze[p] = WALL_STR
  /\ \E p \in AllCells : maze[p] = OPEN_STR /\ Adjacent(p, start)
  /\ \E p \in AllCells : maze[p] = OPEN_STR /\ Adjacent(p, goal)

====
